---- MODULE Spec2Model ----
(***************************************************************************)
(* Model of the MCTest conversion / scoring programs:                      *)
(*   parse.py           length-prefixed record stream (writer and reader)  *)
(*   baseline-embed.py  sliding-window embedding scorer, prediction,       *)
(*                      evaluation and the token -> embedding conversion   *)
(* Bytes are naturals in 0..255, strings are sequences of bytes, vectors   *)
(* are pairs of integers.  Scores are kept as exact reals (see RealScore); *)
(* float rounding is not modelled.  The programs are read with the Python  *)
(* 2 semantics baseline-embed.py relies on (xrange, map returning a list). *)
(* The payload encoding of a record (protobuf, mctest_pb2) is not part of  *)
(* the sources: it is modelled as a tagged binary encoding.                *)
(***************************************************************************)
EXTENDS Integers, Sequences, FiniteSets, TLC

VARIABLES
    \* ---- stream codec (parse.py) ----
    file,           \* bytes of the stream on disk
    written,        \* records handed to length_prefix_proto, in order
    cut,            \* number of bytes chopped off the end of the stream
    junk,           \* bytes appended after the last record
    cphase,         \* "write" | "read"
    pos,            \* read offset of the open stream
    yielded,        \* records yielded so far by parse_proto_stream
    pstate,         \* "run" | "done" (StopIteration) | "error" (exception)
    stderr_report,  \* TRUE once 'Invalid read: ...' was printed
    \* ---- SlidingWindowEmbeddings.score_target ----
    passage, target, window_cfg, si, max_score, tokens_at_max, spc, sresult,
    evaluated,      \* window start indices the loop body ran for
    \* ---- SlidingWindowEmbeddings.predict + choice of the letter ----
    p_passage, p_question, p_answers, p_window, p_scores, p_letter, ppc,
    \* ---- __main__ of baseline-embed.py ----
    stories, truth, mpc, m_story, m_question, predicted, q_types,
    scores_name, stdout,
    \* ---- tokens_to_embeddings / tokenize ----
    tokens, vocab, embeds, ei, mapped, epc

codecVars == <<file, written, cut, junk, cphase, pos, yielded, pstate,
               stderr_report>>
scoreVars == <<passage, target, window_cfg, si, max_score, tokens_at_max,
               spc, sresult, evaluated>>
predVars  == <<p_passage, p_question, p_answers, p_window, p_scores,
               p_letter, ppc>>
mainVars  == <<stories, truth, mpc, m_story, m_question, predicted, q_types,
               scores_name, stdout>>
embVars   == <<tokens, vocab, embeds, ei, mapped, epc>>
vars == <<codecVars, scoreVars, predVars, mainVars, embVars>>

\* What each part of the model leaves alone.
notCodec == <<scoreVars, predVars, mainVars, embVars>>
notScore == <<codecVars, predVars, mainVars, embVars>>
notPred  == <<codecVars, scoreVars, mainVars, embVars>>
notMain  == <<codecVars, scoreVars, predVars, embVars>>
notEmb   == <<codecVars, scoreVars, predVars, mainVars>>

----------------------------------------------------------------------------
\* Generic helpers

Min(a, b) == IF a < b THEN a ELSE b

SeqsUpTo(S, n) == UNION {[1..k -> S] : k \in 0..n}

RECURSIVE Concat(_)
Concat(ss) == IF ss = <<>> THEN <<>> ELSE Head(ss) \o Concat(Tail(ss))

----------------------------------------------------------------------------
\* Bounds of the codec model

MaxRecords == 2
MaxTokens  == 1

\* Strings are byte sequences: "a" and "bc".
Tokens == {<<97>>, <<98, 99>>}
JunkByte == {0, 7}

\* A record: an enum field and a repeated string field, as QuestionAsWords
\* is filled in by datapoint_to_proto_as_words (type, tokens).
Records == [type : {0, 1}, tokens : SeqsUpTo(Tokens, MaxTokens)]
DefaultRecord == [type |-> 0, tokens |-> <<>>]

\* Tagged binary encoding of a record: field 1 (varint) is written only when
\* it differs from its default, field 2 (length-delimited) once per element.
TagType   == 8
TagTokens == 18

RECURSIVE EncodeTokens(_)
EncodeTokens(ts) ==
    IF ts = <<>> THEN <<>>
    ELSE <<TagTokens, Len(Head(ts))>> \o Head(ts) \o EncodeTokens(Tail(ts))

SerializeToString(r) ==
    (IF r.type # 0 THEN <<TagType, r.type>> ELSE <<>>) \o EncodeTokens(r.tokens)

\* Decoding merges the fields found into the record; a field cut short or an
\* unknown tag is a DecodeError (ok = FALSE).
RECURSIVE ParseFields(_, _)
ParseFields(bs, r) ==
    IF bs = <<>> THEN [ok |-> TRUE, rec |-> r]
    ELSE IF bs[1] = TagType THEN
        IF Len(bs) < 2 THEN [ok |-> FALSE, rec |-> r]
        ELSE ParseFields(SubSeq(bs, 3, Len(bs)), [r EXCEPT !.type = bs[2]])
    ELSE IF bs[1] = TagTokens THEN
        IF Len(bs) < 2 \/ Len(bs) < 2 + bs[2] THEN [ok |-> FALSE, rec |-> r]
        ELSE ParseFields(SubSeq(bs, 3 + bs[2], Len(bs)),
                 [r EXCEPT !.tokens = Append(@, SubSeq(bs, 3, 2 + bs[2]))])
    ELSE [ok |-> FALSE, rec |-> r]

ParseFromString(bs) == ParseFields(bs, DefaultRecord)

\* struct.pack('I', n) / struct.unpack_from('I', b): 4 bytes, native order
\* (little-endian on the hosts the programs run on).
pack_I(n) == <<n % 256, (n \div 256) % 256, (n \div 65536) % 256,
               (n \div 16777216) % 256>>
unpack_I(b) == b[1] + 256 * b[2] + 65536 * b[3] + 16777216 * b[4]

\* stream.read(n): at most n bytes from the offset, fewer at end of file.
stream_read(s, off, n) == SubSeq(s, off + 1, Min(off + n, Len(s)))

length_prefix_proto_skewed(proto) ==
    pack_I(Len(SerializeToString(proto)) + 1) \o SerializeToString(proto)

length_prefix_proto(proto) ==
    pack_I(Len(SerializeToString(proto))) \o SerializeToString(proto)

\* Longest unit (prefix + payload) a record of Records encodes to.
MaxUnit == 4 + 2 + 4 * MaxTokens

\* Line 130: a whole 4-byte prefix was read.
HasPrefix_nonzero(bin) == Len(bin) = 4 /\ unpack_I(bin) # 0

HasPrefix(bin) == Len(bin) = 4

\* Lines 131-135: a short read of the prefix ends the generator with a plain
\* return, whether 0 bytes were read or 1 to 3.
ShortReadState_raising(bin) == IF Len(bin) = 0 THEN "done" ELSE "error"

ShortReadState(bin) == IF Len(bin) = 0 THEN "done" ELSE "done"

\* Lines 133-134: the message on stderr.
ShortReadReport(bin) == Len(bin) # 0

CodecInit ==
    /\ file = <<>> /\ written = <<>> /\ cut = 0 /\ junk = <<>>
    /\ cphase = "write" /\ pos = 0 /\ yielded = <<>> /\ pstate = "run"
    /\ stderr_report = FALSE

\* The stream under test grows by one unit: the bytes of
\* length_prefix_proto(r) are concatenated to it.
WriteRecord(r) ==
    /\ UNCHANGED notCodec
    /\ cphase = "write" /\ cut = 0 /\ junk = <<>>
    /\ Len(written) < MaxRecords
    /\ file' = file \o length_prefix_proto(r)
    /\ written' = Append(written, r)
    /\ UNCHANGED <<cut, junk, cphase, pos, yielded, pstate, stderr_report>>

\* The stream loses its last k bytes, k less than the last record's unit.
TruncateStream(k) ==
    /\ UNCHANGED notCodec
    /\ cphase = "write" /\ cut = 0 /\ junk = <<>>
    /\ written # <<>>
    /\ k \in 1..(Len(length_prefix_proto(written[Len(written)])) - 1)
    /\ file' = SubSeq(file, 1, Len(file) - k)
    /\ cut' = k
    /\ UNCHANGED <<written, junk, cphase, pos, yielded, pstate, stderr_report>>

\* One to three stray bytes follow the last record.
AppendJunk(bs) ==
    /\ UNCHANGED notCodec
    /\ cphase = "write" /\ cut = 0 /\ junk = <<>>
    /\ file' = file \o bs
    /\ junk' = bs
    /\ UNCHANGED <<written, cut, cphase, pos, yielded, pstate, stderr_report>>

OpenStream ==
    /\ UNCHANGED notCodec
    /\ cphase = "write"
    /\ cphase' = "read"
    /\ UNCHANGED <<file, written, cut, junk, pos, yielded, pstate,
                   stderr_report>>

\* One iteration of the generator's loop: the caller asks for the next record.
parse_proto_stream ==
    /\ UNCHANGED notCodec
    /\ cphase = "read" /\ pstate = "run"
    /\ LET proto_size_bin == stream_read(file, pos, 4)
       IN IF ~HasPrefix(proto_size_bin)
          THEN /\ pstate' = ShortReadState(proto_size_bin)
               /\ stderr_report' = ShortReadReport(proto_size_bin)
               /\ pos' = pos + Len(proto_size_bin)
               /\ UNCHANGED yielded
          ELSE LET proto_size == unpack_I(proto_size_bin)
                   data == stream_read(file, pos + 4, proto_size)
                   story == ParseFromString(data)
               IN /\ pos' = pos + 4 + Len(data)
                  /\ IF story.ok
                     THEN /\ yielded' = Append(yielded, story.rec)
                          /\ pstate' = "run"
                     ELSE /\ pstate' = "error"
                          /\ UNCHANGED yielded
                  /\ UNCHANGED stderr_report
    /\ UNCHANGED <<file, written, cut, junk, cphase>>

CodecNext ==
    \/ \E r \in Records : WriteRecord(r)
    \/ \E k \in 1..MaxUnit : TruncateStream(k)
    \/ \E bs \in (SeqsUpTo(JunkByte, 3) \ {<<>>}) : AppendJunk(bs)
    \/ OpenStream
    \/ parse_proto_stream

CodecIdle ==
    /\ file = <<>> /\ written = <<>> /\ cut = 0 /\ junk = <<>>
    /\ cphase = "idle" /\ pos = 0 /\ yielded = <<>> /\ pstate = "idle"
    /\ stderr_report = FALSE

----------------------------------------------------------------------------
\* Vectors and scores (baseline-embed.py)

MaxPassage == 4
MaxTarget  == 2
MaxWindow  == 2

Vectors == {<<1, 0>>, <<0, 1>>, <<-1, 0>>}

Dot(u, v) == u[1] * v[1] + u[2] * v[2]

RECURSIVE VecSum(_)
VecSum(vs) ==
    IF vs = <<>> THEN <<0, 0>>
    ELSE <<Head(vs)[1] + VecSum(Tail(vs))[1], Head(vs)[2] + VecSum(Tail(vs))[2]>>

Sign(n) == IF n < 0 THEN -1 ELSE IF n = 0 THEN 0 ELSE 1

RECURSIVE GCD(_, _)
GCD(a, b) == IF b = 0 THEN a ELSE GCD(b, a % b)

\* np.mean(vs, 0): the element-wise mean sum/n, kept as the pair (sum, n);
\* the mean of no vectors is nan.
np_mean(vs) == [sum |-> VecSum(vs), n |-> Len(vs)]

\* l2_normalize(v) = v / sqrt(v.v).  The unit vector of sum/n (n > 0) is the
\* unit vector of sum, kept as its direction; a zero norm or a nan mean gives
\* nan (0/0 in numpy, a warning and no exception).
NanVec == [nan |-> TRUE, dir |-> <<0, 0>>]
l2_normalize(m) ==
    IF m.n = 0 \/ Dot(m.sum, m.sum) = 0 THEN NanVec
    ELSE [nan |-> FALSE, dir |-> m.sum]

\* A score is -inf, nan, or the real 2*c - 2 where c = sgn * sqrt(num/den) is
\* the cosine of the two unit vectors, num/den in lowest terms: equal scores
\* are equal records.
NegInf == [k |-> "neginf", sgn |-> 0, num |-> 0, den |-> 1]
NanScore == [k |-> "nan", sgn |-> 0, num |-> 0, den |-> 1]
RealScore(n, d) ==
    LET g == GCD(n * n, d)
    IN [k |-> "real", sgn |-> Sign(n), num |-> (n * n) \div g, den |-> d \div g]
ZeroScore == RealScore(1, 1)

\* Line 48: -np.dot(mean_passage - mean_target, mean_passage - mean_target)
\* for unit vectors u, v is 2 u.v - 2.
window_score(u, v) ==
    IF u.nan \/ v.nan THEN NanScore
    ELSE RealScore(Dot(u.dir, v.dir), Dot(u.dir, u.dir) * Dot(v.dir, v.dir))

\* Float '>' : false whenever a nan is involved.
score_gt(a, b) ==
    IF a.k = "nan" \/ b.k = "nan" THEN FALSE
    ELSE IF a.k = "neginf" THEN FALSE
    ELSE IF b.k = "neginf" THEN TRUE
    ELSE IF a.sgn # b.sgn THEN a.sgn > b.sgn
    ELSE IF a.sgn = 1 THEN a.num * b.den > b.num * a.den
    ELSE IF a.sgn = -1 THEN a.num * b.den < b.num * a.den
    ELSE FALSE

\* Line 40: self._window_size or target_size (None and 0 are both falsy;
\* window_cfg = 0 stands for both).
window_size(cfg, target_size) == IF cfg # 0 THEN cfg ELSE target_size

\* Line 44: the indices of xrange(len(passage) - window_size) are 0 .. n-1.
range_end_inclusive(p, w) == IF p - w + 1 > 0 THEN p - w + 1 ELSE 0

range_end(p, w) == IF p - w > 0 THEN p - w ELSE 0

\* passage[i:i + w] with 0-based i.
slice(s, i, w) == SubSeq(s, i + 1, Min(i + w, Len(s)))

\* Lines 46-51: the body of the loop at index i, giving the new
\* (max_score, tokens_at_max).
score_step(P, mean_target, w, i, ms, tam) ==
    LET mean_passage == l2_normalize(np_mean(slice(P, i, w)))
        score == window_score(mean_passage, mean_target)
    IN IF score_gt(score, ms)
       THEN [max_score |-> score, tokens_at_max |-> <<i, i + w>>]
       ELSE [max_score |-> ms, tokens_at_max |-> tam]

\* Lines 44-53: the loop from index i on.
RECURSIVE score_loop(_, _, _, _, _, _)
score_loop(P, mean_target, w, i, ms, tam) ==
    IF i >= range_end(Len(P), w) THEN [max_score |-> ms, tokens_at_max |-> tam]
    ELSE LET r == score_step(P, mean_target, w, i, ms, tam)
         IN score_loop(P, mean_target, w, i + 1, r.max_score, r.tokens_at_max)

\* Lines 38-57.  tokens_at_max = <<>> is the empty list the code starts with.
score_target(P, T, cfg) ==
    score_loop(P, l2_normalize(np_mean(T)), window_size(cfg, Len(T)), 0,
               NegInf, <<>>)

ScoreInit ==
    /\ passage \in SeqsUpTo(Vectors, MaxPassage)
    /\ target \in SeqsUpTo(Vectors, MaxTarget)
    /\ window_cfg \in 0..MaxWindow
    /\ si = 0 /\ max_score = NegInf /\ tokens_at_max = <<>>
    /\ spc = "loop" /\ sresult = NegInf /\ evaluated = {}

ScoreIdle ==
    /\ passage = <<>> /\ target = <<>> /\ window_cfg = 0
    /\ si = 0 /\ max_score = NegInf /\ tokens_at_max = <<>>
    /\ spc = "idle" /\ sresult = NegInf /\ evaluated = {}

\* One iteration of the loop of score_target (lines 44-53).
score_target_iter ==
    /\ UNCHANGED notScore
    /\ spc = "loop"
    /\ si < range_end(Len(passage), window_size(window_cfg, Len(target)))
    /\ LET r == score_step(passage, l2_normalize(np_mean(target)),
                           window_size(window_cfg, Len(target)), si,
                           max_score, tokens_at_max)
       IN /\ max_score' = r.max_score
          /\ tokens_at_max' = r.tokens_at_max
    /\ evaluated' = evaluated \cup {si}
    /\ si' = si + 1
    /\ UNCHANGED <<passage, target, window_cfg, spc, sresult>>

\* Lines 54-57: the loop is over, max_score is returned.
score_target_return ==
    /\ UNCHANGED notScore
    /\ spc = "loop"
    /\ si >= range_end(Len(passage), window_size(window_cfg, Len(target)))
    /\ sresult' = max_score
    /\ spc' = "done"
    /\ UNCHANGED <<passage, target, window_cfg, si, max_score, tokens_at_max,
                   evaluated>>

ScoreNext == score_target_iter \/ score_target_return

----------------------------------------------------------------------------
\* predict and the choice of the letter

MaxPredPassage == 3
MaxQuestion    == 1

PVectors == {<<1, 0>>, <<1, 1>>}
AnswerSeqs == {<<>>} \cup {<<v>> : v \in PVectors}
PredWindows == {0, 1}

ANSWER_LETTER == <<"A", "B", "C", "D">>

\* Lines 59-64: one score per answer, in the order of the answers, each
\* against the target question + answer.
predict(P, question, answers, cfg) ==
    [j \in 1..Len(answers) |->
        score_target(P, question \o answers[j], cfg).max_score]

\* max(scores): the first element no later element is greater than.
RECURSIVE py_max_from(_, _)
py_max_from(best, rest) ==
    IF rest = <<>> THEN best
    ELSE py_max_from(IF score_gt(Head(rest), best) THEN Head(rest) ELSE best,
                     Tail(rest))
py_max(scores) == py_max_from(Head(scores), Tail(scores))

\* scores.index(x): the 0-based position of the first element equal to x.
list_index_last(scores, x) ==
    CHOOSE j \in 0..(Len(scores) - 1) :
        /\ scores[j + 1] = x
        /\ \A k \in (j + 1)..(Len(scores) - 1) : scores[k + 1] # x

list_index(scores, x) ==
    CHOOSE j \in 0..(Len(scores) - 1) :
        /\ scores[j + 1] = x
        /\ \A k \in 0..(j - 1) : scores[k + 1] # x

\* Line 115: ANSWER_LETTER[scores.index(max(scores))]
predicted_letter(scores) == ANSWER_LETTER[list_index(scores, py_max(scores)) + 1]

PredInit ==
    /\ p_passage \in SeqsUpTo(PVectors, MaxPredPassage)
    /\ p_question \in SeqsUpTo(PVectors, MaxQuestion)
    /\ p_answers \in [1..4 -> AnswerSeqs]
    /\ p_window \in PredWindows
    /\ p_scores = <<>> /\ p_letter = "" /\ ppc = "call"

PredIdle ==
    /\ p_passage = <<>> /\ p_question = <<>> /\ p_answers = <<>>
    /\ p_window = 0 /\ p_scores = <<>> /\ p_letter = "" /\ ppc = "idle"

\* Line 112: scores = sw.predict(passage_vec, question_vec, answers_vec, False)
call_predict ==
    /\ UNCHANGED notPred
    /\ ppc = "call"
    /\ p_scores' = predict(p_passage, p_question, p_answers, p_window)
    /\ ppc' = "scored"
    /\ UNCHANGED <<p_passage, p_question, p_answers, p_window, p_letter>>

\* Line 115: the letter of the first maximal score.
choose_letter ==
    /\ UNCHANGED notPred
    /\ ppc = "scored"
    /\ p_letter' = predicted_letter(p_scores)
    /\ ppc' = "done"
    /\ UNCHANGED <<p_passage, p_question, p_answers, p_window, p_scores>>

PredNext == call_predict \/ choose_letter

----------------------------------------------------------------------------
\* __main__ of baseline-embed.py, from line 102 on (the stories are parsed)

MaxStories   == 2
MaxQuestions == 2
MaxTruthLines == 2

QuestionTypes == {"ONE", "MULTIPLE"}

\* Stories as parse_proto_stream hands them over: a passage and questions,
\* each with its type, its vectors and four answers.
SampleQuestions ==
    {[type |-> t, tokens |-> <<<<1, 0>>>>,
      answers |-> << <<<<1, 1>>>>, <<<<1, 0>>>>, <<<<1, 0>>>>, <<>> >>] :
        t \in QuestionTypes}
SampleStories ==
    {[passage |-> << <<1, 1>>, <<1, 0>>, <<1, 1>> >>, questions |-> qs] :
        qs \in SeqsUpTo(SampleQuestions, MaxQuestions)}

\* The --truth file: lines of tab-separated letters.
TruthLine == {<<"A">>, <<"B", "A">>}
TruthFiles == SeqsUpTo(TruthLine, MaxTruthLines)
NoTruth == [given |-> FALSE, lines |-> <<>>]

Unbound == [bound |-> FALSE, value |-> <<>>]

Line(kind, text, n, correct) ==
    [kind |-> kind, text |-> text, n |-> n, correct |-> correct]

\* Lines 24-27: the lines split on tabs and concatenated; reduce() of an
\* empty list raises TypeError (handled by the caller of this operator).
load_target_answers(lines) == Concat(lines)

\* Lines 126-128: the positions of the ONE-type questions and of the others.
single_mask(types) == {i \in 1..Len(types) : types[i] = "ONE"}
multiple_mask(types) == {i \in 1..Len(types) : types[i] # "ONE"}

\* Lines 124 and 129: the two assertions.
integrity_checks_stripped(answers, pred, types) == TRUE

integrity_checks(answers, pred, types) ==
    /\ Len(answers) = Len(pred)
    /\ Cardinality(single_mask(types)) + Cardinality(multiple_mask(types))
           = Len(answers)

\* np.sum(answers[mask] == predicted[mask])
n_correct(answers, pred, mask) ==
    Cardinality({i \in mask : /\ i <= Len(answers) /\ i <= Len(pred)
                               /\ answers[i] = pred[i]})

\* Lines 131-139: the three accuracy lines (count, number correct).
accuracy_lines(answers, pred, types) ==
    << Line("accuracy", "All", Len(types),
            n_correct(answers, pred, 1..Len(pred))),
       Line("accuracy", "Single", Cardinality(single_mask(types)),
            n_correct(answers, pred, single_mask(types))),
       Line("accuracy", "Multiple", Cardinality(multiple_mask(types)),
            n_correct(answers, pred, multiple_mask(types))) >>

\* Lines 141-142: one line per prediction.
letter_lines(pred) == [i \in 1..Len(pred) |-> Line("letter", pred[i], 0, 0)]

MainInit ==
    /\ stories \in SeqsUpTo(SampleStories, MaxStories)
    /\ truth \in {NoTruth} \cup {[given |-> TRUE, lines |-> f] : f \in TruthFiles}
    /\ mpc = "loop" /\ m_story = 1 /\ m_question = 1
    /\ predicted = <<>> /\ q_types = <<>>
    /\ scores_name = Unbound
    /\ stdout = <<Line("debug", "[model]", 0, 0),
                  Line("debug", "len(stories)", 0, 0)>>

MainIdle ==
    /\ stories = <<>> /\ truth = NoTruth
    /\ mpc = "idle" /\ m_story = 1 /\ m_question = 1
    /\ predicted = <<>> /\ q_types = <<>>
    /\ scores_name = Unbound /\ stdout = <<>>

\* Lines 105-115: the body of the loop over a story's questions.  Line 110
\* prints the global name 'scores', which line 112 is the first to bind: the
\* read of an unbound name raises NameError and ends the run.
main_question ==
    /\ UNCHANGED notMain
    /\ mpc = "loop"
    /\ m_story <= Len(stories)
    /\ m_question <= Len(stories[m_story].questions)
    /\ LET story == stories[m_story]
           question == story.questions[m_question]
       IN /\ q_types' = Append(q_types, question.type)
          /\ IF ~scores_name.bound
             THEN /\ mpc' = "NameError"
                  /\ UNCHANGED <<predicted, scores_name, stdout, m_question>>
             ELSE LET scores == predict(story.passage, question.tokens,
                                        question.answers, 0)
                  IN /\ stdout' = Append(stdout,
                                       Line("debug", "story > scores", 0, 0))
                     /\ scores_name' = [bound |-> TRUE, value |-> scores]
                     /\ predicted' = Append(predicted, predicted_letter(scores))
                     /\ m_question' = m_question + 1
                     /\ UNCHANGED mpc
    /\ UNCHANGED <<stories, truth, m_story>>

\* Line 102: the loop over the stories moves on to the next story.
main_next_story ==
    /\ UNCHANGED notMain
    /\ mpc = "loop"
    /\ m_story <= Len(stories)
    /\ m_question > Len(stories[m_story].questions)
    /\ m_story' = m_story + 1
    /\ m_question' = 1
    /\ UNCHANGED <<stories, truth, mpc, predicted, q_types, scores_name,
                   stdout>>

\* Lines 117-142: evaluation against the ground truth, or the predictions.
main_output ==
    /\ UNCHANGED notMain
    /\ mpc = "loop"
    /\ m_story > Len(stories)
    /\ IF truth.given
       THEN IF truth.lines = <<>>
            THEN mpc' = "TypeError" /\ UNCHANGED stdout
            ELSE LET answers == load_target_answers(truth.lines)
                     counts == Line("debug", "len(answers) =", Len(answers),
                                    Len(predicted))
                 IN IF ~integrity_checks(answers, predicted, q_types)
                    THEN /\ mpc' = "AssertionError"
                         /\ stdout' = Append(stdout, counts)
                    ELSE /\ mpc' = "done"
                         /\ stdout' = Append(stdout, counts) \o
                               accuracy_lines(answers, predicted, q_types)
       ELSE /\ mpc' = "done"
            /\ stdout' = stdout \o letter_lines(predicted)
    /\ UNCHANGED <<stories, truth, m_story, m_question, predicted, q_types,
                   scores_name>>

MainNext == main_question \/ main_next_story \/ main_output

----------------------------------------------------------------------------
\* Tokens to embeddings

MaxSentence == 3

Words == {"The", "the", "Cat", "zed"}

\* str.lower() on the words of the model.
lower(token) ==
    CASE token = "The" -> "the"
      [] token = "Cat" -> "cat"
      [] OTHER -> token

\* The word2vec table: the vector of each word it may hold.
Embedding == [w \in {"the", "cat", "zed"} |->
                 CASE w = "the" -> <<1, 0>>
                   [] w = "cat" -> <<0, 1>>
                   [] OTHER -> <<1, 1>>]
Models == {[w \in ws |-> Embedding[w]] : ws \in SUBSET (DOMAIN Embedding)}

\* baseline-embed.py lines 70-75: the body of the loop for one token; a
\* KeyError is caught and only reported.
embed_token_zero_fill(acc, model, token) ==
    IF lower(token) \in DOMAIN model THEN Append(acc, model[lower(token)])
    ELSE Append(acc, <<0, 0>>)

embed_token(acc, model, token) ==
    IF lower(token) \in DOMAIN model THEN Append(acc, model[lower(token)])
    ELSE acc

\* parse.py lines 180-186: the vector, or None for a word not in the table.
None == <<"None">>
to_embeddings(model, token) ==
    IF lower(token) \in DOMAIN model THEN model[lower(token)] ELSE None

\* parse.py line 195: filter(lambda x: x is not None, map(mapper, mapped))
RECURSIVE map_filter(_, _)
map_filter(model, ts) ==
    IF ts = <<>> THEN <<>>
    ELSE LET x == to_embeddings(model, Head(ts))
         IN (IF x # None THEN <<x>> ELSE <<>>) \o map_filter(model, Tail(ts))

EmbInit ==
    /\ tokens \in SeqsUpTo(Words, MaxSentence)
    /\ vocab \in Models
    /\ embeds = <<>> /\ ei = 1 /\ mapped = <<>> /\ epc = "loop"

EmbIdle ==
    /\ tokens = <<>> /\ vocab = <<>>
    /\ embeds = <<>> /\ ei = 1 /\ mapped = <<>> /\ epc = "idle"

\* baseline-embed.py lines 69-75: one iteration of the loop over the tokens.
tokens_to_embeddings ==
    /\ UNCHANGED notEmb
    /\ epc = "loop"
    /\ ei <= Len(tokens)
    /\ embeds' = embed_token(embeds, vocab, tokens[ei])
    /\ ei' = ei + 1
    /\ UNCHANGED <<tokens, vocab, mapped, epc>>

\* parse.py lines 194-196 with the embedding mapper: the same tokens go
\* through tokenize's mapper chain.
tokenize ==
    /\ UNCHANGED notEmb
    /\ epc = "loop"
    /\ ei > Len(tokens)
    /\ mapped' = map_filter(vocab, tokens)
    /\ epc' = "done"
    /\ UNCHANGED <<tokens, vocab, embeds, ei>>

EmbNext == tokens_to_embeddings \/ tokenize

----------------------------------------------------------------------------
\* Specifications: one per program part, the other parts idle.

CodecStart == CodecInit /\ ScoreIdle /\ PredIdle /\ MainIdle /\ EmbIdle
CodecSpec == CodecStart /\ [][CodecNext]_vars

ScoreStart == CodecIdle /\ ScoreInit /\ PredIdle /\ MainIdle /\ EmbIdle
ScoreSpec == ScoreStart /\ [][ScoreNext]_vars

PredStart == CodecIdle /\ ScoreIdle /\ PredInit /\ MainIdle /\ EmbIdle
PredSpec == PredStart /\ [][PredNext]_vars

MainStart == CodecIdle /\ ScoreIdle /\ PredIdle /\ MainInit /\ EmbIdle
MainSpec == MainStart /\ [][MainNext]_vars

EmbStart == CodecIdle /\ ScoreIdle /\ PredIdle /\ MainIdle /\ EmbInit
EmbSpec == EmbStart /\ [][EmbNext]_vars

----------------------------------------------------------------------------
\* Properties of the stream codec (CodecSpec)

IsPrefix(a, b) == Len(a) <= Len(b) /\ \A i \in 1..Len(a) : a[i] = b[i]

\* The stream is exactly the written units.
Intact == cut = 0 /\ junk = <<>>

\* The records whose whole unit is in the stream, and the number of bytes
\* that follow them.
Complete == IF cut > 0 THEN SubSeq(written, 1, Len(written) - 1) ELSE written
TailLen ==
    IF cut > 0 THEN Len(length_prefix_proto(written[Len(written)])) - cut
    ELSE Len(junk)

\* C1: reading back the concatenation of length_prefix_proto(r) of k records
\* yields exactly those k records, in order and field for field, and then
\* the sequence ends: no error, every yielded record is the written one at
\* its position, the reader has consumed the whole stream once it has
\* yielded k records, and it stops only after all k.
C1_RoundTrip ==
    (cphase = "read" /\ Intact) =>
        /\ pstate # "error"
        /\ IsPrefix(yielded, written)
        /\ (Len(yielded) = Len(written) => pos = Len(file))
        /\ (pstate = "done" => yielded = written)

C1_Witness ==
    /\ cphase = "read" /\ Intact /\ pstate = "done"
    /\ Len(written) >= 2 /\ written[1] # written[2]
    /\ written[1].tokens # <<>> /\ written[1].type = 1
    /\ yielded = written

\* C2: n complete records followed by 0 to 3 more bytes: the reader yields
\* exactly the n records in order and then ends the sequence without an
\* error; the 1-3 byte case is only reported on stderr.
C2_ShortTailEndsQuietly ==
    (cphase = "read" /\ TailLen <= 3) =>
        /\ pstate # "error"
        /\ IsPrefix(yielded, Complete)
        /\ (pstate = "done" =>
               /\ yielded = Complete
               /\ stderr_report = (TailLen > 0))

C2_Witness ==
    /\ cphase = "read" /\ pstate = "done"
    /\ cut > 0 /\ TailLen \in 1..3
    /\ Complete # <<>> /\ yielded = Complete
    /\ stderr_report

\* C3 (as claimed): when a whole prefix n was read and fewer than n bytes
\* follow, the caller gets an error: no record is yielded for the cut
\* payload and the sequence never ends normally.
C3_TruncatedPayloadIsError ==
    (cphase = "read" /\ cut > 0 /\ TailLen >= 4) =>
        /\ Len(yielded) <= Len(Complete)
        /\ pstate # "done"

\* C10: a record with an empty payload is written as the four bytes of 0;
\* on reading, a zero prefix yields one default record and the reader goes
\* on with the next unit, and the sequence ends only when the read of the
\* prefix returns fewer than 4 bytes.
C10_ZeroPrefixIsARecord ==
    /\ [](\A i \in 1..Len(written) :
            SerializeToString(written[i]) = <<>> =>
                length_prefix_proto(written[i]) = <<0, 0, 0, 0>>)
    /\ [][(cphase = "read" /\ pstate = "run") =>
            /\ (pstate' = "done" => Len(file) - pos < 4)
            /\ (stream_read(file, pos, 4) = <<0, 0, 0, 0>> =>
                   /\ yielded' = Append(yielded, DefaultRecord)
                   /\ pstate' = "run"
                   /\ pos' = pos + 4)]_vars

C10_Witness ==
    /\ cphase = "read" /\ Intact /\ pstate = "done"
    /\ Len(written) >= 2
    /\ written[1] = DefaultRecord /\ written[2] # DefaultRecord
    /\ yielded = written

----------------------------------------------------------------------------
\* Properties of score_target (ScoreSpec)

EffWindow == window_size(window_cfg, Len(target))

\* The score of the window starting at i, as the loop body computes it.
WindowScoreAt(i) ==
    window_score(l2_normalize(np_mean(SubSeq(passage, i + 1, i + EffWindow))),
                 l2_normalize(np_mean(target)))

\* C4 (as claimed): a non-empty P with a non-zero mean, T = P and
\* w = len(T) = len(P): the score is 0.
C4_SelfMatchScoresZero ==
    (/\ spc = "done" /\ passage # <<>> /\ target = passage
     /\ VecSum(passage) # <<0, 0>> /\ EffWindow = Len(passage))
        => sresult = ZeroScore

\* C5: the loop body runs for exactly the start indices 0 .. p - w - 1; the
\* result is the maximum of their scores and the bounds are (i, i + w) for
\* the lowest i attaining it; when no index attains a maximum (there is no
\* index, as whenever p <= w, or no window has a number for a score: a nan
\* compares greater than nothing) the result is -inf and the bounds are
\* the empty marker.
C5_WindowsAndFirstMax ==
    spc = "done" =>
        LET idx == {i \in 0..(Len(passage) - 1) : i <= Len(passage) - EffWindow - 1}
            best == {i \in idx :
                        /\ WindowScoreAt(i).k = "real"
                        /\ \A j \in idx : ~score_gt(WindowScoreAt(j), WindowScoreAt(i))}
        IN /\ evaluated = idx
           /\ sresult = max_score
           /\ IF best = {}
              THEN sresult = NegInf /\ tokens_at_max = <<>>
              ELSE \E i \in best :
                      /\ \A j \in best : i <= j
                      /\ sresult = WindowScoreAt(i)
                      /\ tokens_at_max = <<i, i + EffWindow>>

C5_Witness ==
    /\ spc = "done" /\ sresult.k = "real"
    /\ \E i, j, k \in evaluated :
          /\ i < j
          /\ WindowScoreAt(i) = sresult /\ WindowScoreAt(j) = sresult
          /\ score_gt(sresult, WindowScoreAt(k)) /\ k < i
          /\ tokens_at_max = <<i, i + EffWindow>>

----------------------------------------------------------------------------
\* Properties of predict and the choice of the letter (PredSpec)

----------------------------------------------------------------------------
\* Properties of the score-mode run (MainSpec)

Ended == mpc \in {"done", "NameError", "TypeError", "AssertionError"}

RECURSIVE QuestionLetters(_, _)
QuestionLetters(P, qs) ==
    IF qs = <<>> THEN <<>>
    ELSE <<predicted_letter(predict(P, Head(qs).tokens, Head(qs).answers, 0))>>
             \o QuestionLetters(P, Tail(qs))

RECURSIVE StoryLetters(_)
StoryLetters(ss) ==
    IF ss = <<>> THEN <<>>
    ELSE QuestionLetters(Head(ss).passage, Head(ss).questions)
             \o StoryLetters(Tail(ss))

LinesOf(kind) == SelectSeq(stdout, LAMBDA l : l.kind = kind)

\* C7 (as claimed): a run without ground truth ends with exactly one letter
\* line per question, in story order and question order.
C7_OneLetterPerQuestion ==
    (Ended /\ ~truth.given) =>
        /\ Len(LinesOf("letter")) = Len(StoryLetters(stories))
        /\ \A i \in 1..Len(LinesOf("letter")) :
              LinesOf("letter")[i].text = StoryLetters(stories)[i]

\* C8: a run never shows one or two accuracy lines; when the number of
\* labels differs from the number of predictions, or the ONE and MULTIPLE
\* counts do not add up to the number of labels, the run ends in an error
\* with no accuracy line.
C8_AccuracyAllOrNothing ==
    LET acc == Len(LinesOf("accuracy"))
        answers == Concat(truth.lines)
        n_one == Cardinality({i \in 1..Len(q_types) : q_types[i] = "ONE"})
        n_mul == Cardinality({i \in 1..Len(q_types) : q_types[i] = "MULTIPLE"})
    IN /\ acc \in {0, 3}
       /\ (Ended /\ truth.given /\
              (Len(answers) # Len(predicted) \/ n_one + n_mul # Len(answers)))
            => (mpc # "done" /\ acc = 0)

C8_Witness ==
    /\ mpc = "AssertionError" /\ truth.given
    /\ stories # <<>>
    /\ Len(Concat(truth.lines)) # Len(predicted)
    /\ LinesOf("accuracy") = <<>>

----------------------------------------------------------------------------
\* Properties of the token -> embedding conversion (EmbSpec)

\* The positions among the first n tokens whose lower-cased form is in the
\* vocabulary.
Known(n) == {i \in 1..n : lower(tokens[i]) \in DOMAIN vocab}

\* out holds the vectors of the tokens at the positions Known(n), in order.
VectorsOfKnown(out, n) ==
    /\ Len(out) = Cardinality(Known(n))
    /\ \A k \in 1..Len(out) :
          \E i \in Known(n) :
             /\ Cardinality({h \in Known(n) : h < i}) = k - 1
             /\ out[k] = Embedding[lower(tokens[i])]

\* C9: the conversion yields the vectors of exactly the tokens whose
\* lower-cased form is in the vocabulary, in their order; a missing token
\* adds no element, and the loop goes on to the next token.
C9_MissingTokensDropped ==
    /\ epc \in {"loop", "done"} =>
          /\ ei \in 1..(Len(tokens) + 1)
          /\ VectorsOfKnown(embeds, ei - 1)
    /\ epc = "done" =>
          /\ ei = Len(tokens) + 1
          /\ VectorsOfKnown(mapped, Len(tokens))

C9_Witness ==
    /\ epc = "done" /\ Len(tokens) = 3
    /\ tokens[1] = "The" /\ "the" \in DOMAIN vocab
    /\ lower(tokens[2]) \notin DOMAIN vocab
    /\ lower(tokens[3]) \in DOMAIN vocab /\ tokens[3] # "The"
    /\ Len(embeds) = 2 /\ embeds[1] # embeds[2]
    /\ mapped = embeds

====
